---- MODULE Spec2Model ----
(***************************************************************************)
(* State machine of the DragDropQuiz component (src/DragDropQuiz.tsx):     *)
(* the placements map, the dragged item, the shuffled presentation order,  *)
(* and the handlers handleDragStart / handleDragEnd / handleDrop /         *)
(* handleCheckAnswer, driven by the events the rendered elements accept.   *)
(***************************************************************************)
EXTENDS Integers, Sequences, FiniteSets, TLC

(* ------------------------------ bounds --------------------------------- *)

\* number of items of the quiz node (node.items.length)
MaxItems == 3

\* number of onComplete calls recorded before the model stops clicking
MaxCalls == 2

(* ------------------------------ values --------------------------------- *)

\* JavaScript null (the value of an empty target, and of "no dragged item")
null == "null"

\* JavaScript undefined (reading a key the object does not have)
undefined == "undefined"

\* the key the Unplaced Items Area passes to handleDrop
UnplacedKey == "unplaced"

\* item ids, in the node's declared order
ItemPool == <<"a", "b", "c", "d", "e">>

ItemIds == SubSeq(ItemPool, 1, MaxItems)

\* target ids, in the node's declared order (the three ESG pillars)
TargetIds == <<"E", "S", "G">>

Range(s) == {s[i] : i \in DOMAIN s}

IsInjective(f) == \A x, y \in DOMAIN f : f[x] = f[y] => x = y

\* JavaScript truthiness of a string-or-null value
Truthy(v) == v # null /\ v # undefined /\ v # ""

(* ------------------------------- node ---------------------------------- *)

\* the correct item of each target: the declared item order rotated by one, so
\* that target i does not simply take item i
CorrectMaps ==
    {[i \in DOMAIN TargetIds |-> ItemIds[((i - 1 + r) % MaxItems) + 1]] :
        r \in {1}}

\* DragDropQuizNode: items (ids) and targets (id, correctItemId)
Nodes ==
    {[items |-> ItemIds,
      targets |-> [i \in DOMAIN TargetIds |->
                      [id |-> TargetIds[i], correctItemId |-> c[i]]]] :
        c \in CorrectMaps}

VARIABLES
    node,           \* the node prop
    placements,     \* useState<Placements>
    draggedItem,    \* useState<string | null>
    shuffledItems,  \* useMemo: the shuffled presentation order
    onCompleteLog,  \* the values passed to the onComplete prop, in call order
    lastDrop,       \* history: the last drop handled with an active dragged item
    lastEvent       \* history: the kind of the last event delivered

\* the component's own state and props
state == <<node, placements, draggedItem, shuffledItems, onCompleteLog>>

vars == <<state, lastDrop, lastEvent>>

(* --------------------------- pure functions ---------------------------- *)

TargetIdSet(n) == {n.targets[i].id : i \in DOMAIN n.targets}

\* initialPlacements with the accumulator seeded from the answer key
initialPlacementsPrefilled(n) ==
    [k \in TargetIdSet(n) |->
        LET i == CHOOSE j \in DOMAIN n.targets : n.targets[j].id = k
        IN  n.targets[i].correctItemId]

\* initialPlacements storing each target's own id instead of null
initialPlacementsOwnId(n) == [k \in TargetIdSet(n) |-> k]

\* node.targets.reduce(...): every target id mapped to null
initialPlacements(n) == [k \in TargetIdSet(n) |-> null]

\* [...node.items].sort(() => Math.random() - 0.5): the comparator is random,
\* so any ordering of the same elements can come out
ShuffleOutcomes(items) ==
    {s \in [DOMAIN items -> Range(items)] : IsInjective(s)}

\* Object.keys(p): insertion order, the target ids first, then any later key
ObjectKeys(n, p) ==
    LET declared == [i \in DOMAIN n.targets |-> n.targets[i].id]
    IN  SelectSeq(declared \o <<UnplacedKey>>, LAMBDA k : k \in DOMAIN p)

\* Object.values(p)
ObjectValues(p) == {p[k] : k \in DOMAIN p}

\* p[k] of a JavaScript object
Get(p, k) == IF k \in DOMAIN p THEN p[k] ELSE undefined

\* keys.find(pred): the first key satisfying pred, or undefined
FindKey(keys, v, p) ==
    LET hits == {i \in DOMAIN keys : p[keys[i]] = v}
    IN  IF hits = {} THEN undefined
        ELSE keys[CHOOSE i \in hits : \A j \in hits : i <= j]

\* shuffledItems.filter(item => !Object.values(placements).includes(item.id))
unplacedItems(shuffled, p) ==
    SelectSeq(shuffled, LAMBDA id : id \notin ObjectValues(p))

\* unplacedItems.length === 0
allPlaced(shuffled, p) == Len(unplacedItems(shuffled, p)) = 0

\* node.items.find(item => item.id === placements[target.id]) for one target
placedItem(n, p, t) ==
    IF Get(p, t) \in Range(n.items) THEN Get(p, t) ELSE undefined

\* the ids of the elements rendered draggable: the unplaced list and the
\* placed item of every drop zone
DraggableItems(n, shuffled, p) ==
    Range(unplacedItems(shuffled, p))
        \cup ({placedItem(n, p, t) : t \in TargetIdSet(n)} \ {undefined})

\* newPlacements without the loop that frees the dragged item's old spot
newPlacementsNoFree(n, p, dragged, targetId) ==
    LET existingItemInTarget == Get(p, targetId)
        assigned == [k \in DOMAIN p \cup {targetId} |->
                        IF k = targetId THEN dragged ELSE p[k]]
        oldTargetKey == FindKey(ObjectKeys(n, p), dragged, p)
    IN  IF Truthy(existingItemInTarget) /\ Truthy(oldTargetKey)
        THEN [assigned EXCEPT ![oldTargetKey] = existingItemInTarget]
        ELSE assigned

\* newPlacements without the swap: the displaced item is dropped from the map
newPlacementsNoSwap(n, p, dragged, targetId) ==
    LET cleared == [k \in DOMAIN p |-> IF p[k] = dragged THEN null ELSE p[k]]
    IN  [k \in DOMAIN p \cup {targetId} |->
            IF k = targetId THEN dragged ELSE cleared[k]]

\* newPlacements looking the old target key up in newPlacements (after the
\* assignment) instead of in placements
newPlacementsStaleKey(n, p, dragged, targetId) ==
    LET cleared == [k \in DOMAIN p |-> IF p[k] = dragged THEN null ELSE p[k]]
        existingItemInTarget == Get(cleared, targetId)
        assigned == [k \in DOMAIN p \cup {targetId} |->
                        IF k = targetId THEN dragged ELSE cleared[k]]
        oldTargetKey == FindKey(ObjectKeys(n, assigned), dragged, assigned)
    IN  IF Truthy(existingItemInTarget) /\ Truthy(oldTargetKey)
        THEN [assigned EXCEPT ![oldTargetKey] = existingItemInTarget]
        ELSE assigned

\* newPlacements writing the dragged item's old key last: the displaced item,
\* or null, goes into it after the assignment to the target
newPlacementsOldKeyLast(n, p, dragged, targetId) ==
    LET existingItemInTarget == Get(p, targetId)
        oldTargetKey == FindKey(ObjectKeys(n, p), dragged, p)
        assigned == [k \in DOMAIN p \cup {targetId} |->
                        IF k = targetId THEN dragged ELSE p[k]]
    IN  IF Truthy(oldTargetKey)
        THEN [assigned EXCEPT ![oldTargetKey] =
                IF Truthy(existingItemInTarget) /\ existingItemInTarget # dragged
                THEN existingItemInTarget ELSE null]
        ELSE assigned

\* the body of handleDrop after the early return: the new placements object
newPlacements(n, p, dragged, targetId) ==
    LET cleared == [k \in DOMAIN p |-> IF p[k] = dragged THEN null ELSE p[k]]
        existingItemInTarget == Get(cleared, targetId)
        assigned == [k \in DOMAIN p \cup {targetId} |->
                        IF k = targetId THEN dragged ELSE cleared[k]]
        oldTargetKey == FindKey(ObjectKeys(n, p), dragged, p)
    IN  IF Truthy(existingItemInTarget) /\ Truthy(oldTargetKey)
        THEN [assigned EXCEPT ![oldTargetKey] = existingItemInTarget]
        ELSE assigned

\* isCorrect with some in place of every
isCorrectSome(n, p) ==
    \E i \in DOMAIN n.targets :
        Get(p, n.targets[i].id) = n.targets[i].correctItemId

\* node.targets.every(target => placements[target.id] === target.correctItemId)
isCorrect(n, p) ==
    \A i \in DOMAIN n.targets :
        Get(p, n.targets[i].id) = n.targets[i].correctItemId

\* every target id has a non-null assigned item
isComplete(n, p) ==
    \A t \in TargetIdSet(n) : Get(p, t) # null /\ Get(p, t) # undefined

(* ------------------------------ machine -------------------------------- *)

\* lastDrop before any drop was handled
NoDrop(n) ==
    [item |-> null, target |-> null, from |-> null,
     before |-> [k \in TargetIdSet(n) |-> null], back |-> FALSE]

\* the drop of dragged onto targetId returns the item to the target it held
\* before the previous drop, which had moved it onto another target
IsReturnDrop(n, last, dragged, targetId) ==
    /\ last.item = dragged
    /\ targetId \in TargetIdSet(n)
    /\ last.target \in TargetIdSet(n) \ {targetId}
    /\ last.before[targetId] = dragged

Init ==
    /\ node \in Nodes
    /\ placements = initialPlacements(node)
    /\ draggedItem = null
    /\ shuffledItems \in ShuffleOutcomes(node.items)
    /\ onCompleteLog = <<>>
    /\ lastDrop = NoDrop(node)
    /\ lastEvent = "init"

\* onDragStart: setDraggedItem(itemId)
handleDragStart(itemId) ==
    /\ draggedItem' = itemId
    /\ UNCHANGED <<node, placements, shuffledItems, onCompleteLog>>

\* handleDragEnd that leaves the drag pending
handleDragEndKeepsDrag ==
    UNCHANGED state

\* onDragEnd: setDraggedItem(null)
handleDragEnd ==
    /\ draggedItem' = null
    /\ UNCHANGED <<node, placements, shuffledItems, onCompleteLog>>

\* handleDrop without the early return on a null draggedItem
handleDropNoGuard(targetId) ==
    /\ placements' = newPlacements(node, placements, draggedItem, targetId)
    /\ draggedItem' = null
    /\ UNCHANGED <<node, shuffledItems, onCompleteLog>>

\* handleDrop without the final setDraggedItem(null)
handleDropKeepsDrag(targetId) ==
    IF ~Truthy(draggedItem)
    THEN UNCHANGED state
    ELSE /\ placements' = newPlacements(node, placements, draggedItem, targetId)
         /\ UNCHANGED <<node, draggedItem, shuffledItems, onCompleteLog>>

\* onDrop of a drop zone (targetId = target.id) or of the Unplaced Items Area
\* (targetId = 'unplaced')
handleDrop(targetId) ==
    IF ~Truthy(draggedItem)
    THEN UNCHANGED state
    ELSE /\ placements' = newPlacements(node, placements, draggedItem, targetId)
         /\ draggedItem' = null
         /\ UNCHANGED <<node, shuffledItems, onCompleteLog>>

\* onClick of the Submit Button, rendered only when allPlaced
handleCheckAnswer ==
    /\ allPlaced(shuffledItems, placements)
    /\ Len(onCompleteLog) < MaxCalls
    /\ onCompleteLog' = Append(onCompleteLog, isCorrect(node, placements))
    /\ UNCHANGED <<node, placements, draggedItem, shuffledItems>>

\* history: what a drop handled with an active dragged item did
RecordDrop(targetId) ==
    lastDrop' =
        IF ~Truthy(draggedItem) THEN lastDrop
        ELSE [item |-> draggedItem,
              target |-> targetId,
              from |-> FindKey(ObjectKeys(node, placements),
                               draggedItem, placements),
              before |-> placements,
              back |-> IsReturnDrop(node, lastDrop, draggedItem, targetId)]

\* the drop targets rendered: every drop zone and the Unplaced Items Area
DropTargets(n) == TargetIdSet(n) \cup {UnplacedKey}

\* the events the rendered elements deliver, with the drops recorded
Next ==
    \/ \E itemId \in DraggableItems(node, shuffledItems, placements) :
          handleDragStart(itemId) /\ UNCHANGED <<lastDrop, lastEvent>>
    \/ handleDragEnd /\ UNCHANGED <<lastDrop, lastEvent>>
    \/ \E targetId \in DropTargets(node) :
          handleDrop(targetId) /\ RecordDrop(targetId) /\ UNCHANGED lastEvent
    \/ handleCheckAnswer /\ UNCHANGED <<lastDrop, lastEvent>>

Spec == Init /\ [][Next]_vars

\* the events that are drops
DropEvents == {"drop", "dropIgnored", "dropRepeated"}

\* history: a drop is handled when an item is dragged; otherwise it is ignored,
\* and repeated when it directly follows another drop
DropEventKind ==
    IF Truthy(draggedItem) THEN "drop"
    ELSE IF lastEvent \in DropEvents THEN "dropRepeated"
    ELSE "dropIgnored"

\* the same events, with the kind of the last event recorded
NextEvents ==
    \/ \E itemId \in DraggableItems(node, shuffledItems, placements) :
          /\ handleDragStart(itemId)
          /\ lastEvent' = "dragStart"
          /\ UNCHANGED lastDrop
    \/ /\ handleDragEnd
       /\ lastEvent' = IF Truthy(draggedItem) THEN "dragEnd" ELSE "dragEndIdle"
       /\ UNCHANGED lastDrop
    \/ \E targetId \in DropTargets(node) :
          /\ handleDrop(targetId)
          /\ lastEvent' = DropEventKind
          /\ UNCHANGED lastDrop
    \/ /\ handleCheckAnswer
       /\ lastEvent' = "check"
       /\ UNCHANGED lastDrop

SpecEvents == Init /\ [][NextEvents]_vars

\* the node is entered again after a resolved attempt: a new component
\* instance is mounted, with the initial values of useState and useMemo;
\* re-entries are followed only while onCompleteLog can still grow
reenter ==
    /\ Len(onCompleteLog) >= 1
    /\ Len(onCompleteLog) < MaxCalls
    /\ placements' = initialPlacements(node)
    /\ draggedItem' = null
    /\ shuffledItems' \in ShuffleOutcomes(node.items)
    /\ UNCHANGED <<node, onCompleteLog>>

\* the handlers of the component, and the re-entry of its node; lastEvent
\* tells a state reached by re-entry from one reached by a handler
NextReentry ==
    \/ /\ \E itemId \in DraggableItems(node, shuffledItems, placements) :
            handleDragStart(itemId)
       /\ lastEvent' = "handler"
       /\ UNCHANGED lastDrop
    \/ /\ handleDragEnd
       /\ lastEvent' = "handler"
       /\ UNCHANGED lastDrop
    \/ /\ \E targetId \in DropTargets(node) : handleDrop(targetId)
       /\ lastEvent' = "handler"
       /\ UNCHANGED lastDrop
    \/ /\ handleCheckAnswer
       /\ lastEvent' = "handler"
       /\ UNCHANGED lastDrop
    \/ /\ reenter
       /\ lastEvent' = "mount"
       /\ UNCHANGED lastDrop

SpecReentry == Init /\ [][NextReentry]_vars

(* ------------------------------ helpers -------------------------------- *)

\* a drop was handled with an active dragged item in this step
DropHandled == lastDrop' # lastDrop

\* the items shown in the unplaced list
Unplaced(p) == Range(unplacedItems(shuffledItems, p))

\* the targets of the node holding item x in p
HoldersOf(p, x) == {t \in TargetIdSet(node) : Get(p, t) = x}

(* ------------------------------- claims -------------------------------- *)

\* C1: in every reachable state no item id is the assigned value of more than
\* one key of the placements map.
C1_NoItemInTwoKeys ==
    \A k1, k2 \in DOMAIN placements :
        (placements[k1] = placements[k2] /\ placements[k1] # null) => k1 = k2

\* C1 witness: an item was dragged out of one target into another occupied one
C1_Witness ==
    /\ lastDrop.item # null
    /\ lastDrop.from \in TargetIdSet(node)
    /\ lastDrop.target \in TargetIdSet(node) \ {lastDrop.from}
    /\ lastDrop.before[lastDrop.target] \in Range(node.items)
    /\ placements[lastDrop.target] = lastDrop.item

\* C2 (as claimed): onComplete is only ever called in a state where every
\* target id of the node has a non-null assigned item.
C2_OnCompleteOnlyWhenComplete ==
    [][onCompleteLog' # onCompleteLog => isComplete(node, placements)]_vars

\* C3 (as claimed): isComplete holds if and only if the unplaced-items list is
\* empty, in every reachable state.
C3_CompleteIffNoneUnplaced ==
    isComplete(node, placements) <=> (unplacedItems(shuffledItems, placements) = <<>>)

\* C4 (as claimed): the key set of the placements map equals the node's
\* target-id set in every reachable state.
C4_KeysAreTheTargetIds ==
    DOMAIN placements = TargetIdSet(node)

\* C5 (as claimed): a drop of dragged item x onto the unplaced pool leaves x in
\* no target and in the unplaced list, and leaves every target that did not
\* hold x unchanged.
C5_PoolDropOnlyVacates ==
    [][(DropHandled /\ lastDrop'.target = UnplacedKey) =>
            /\ HoldersOf(placements', draggedItem) = {}
            /\ draggedItem \in Unplaced(placements')
            /\ \A t \in TargetIdSet(node) \ HoldersOf(placements, draggedItem) :
                    Get(placements', t) = Get(placements, t)]_vars

\* C6: a drop of dragged item x onto target T leaves x in T and nowhere else;
\* when T held another item y: if x came from target S then S holds y, and if
\* x was unplaced then y is unplaced; every target other than T and S keeps
\* its assignment.
C6_TargetDropPlacesAndSwaps ==
    [][(DropHandled /\ lastDrop'.target \in TargetIdSet(node)) =>
            LET x == draggedItem
                T == lastDrop'.target
                y == placements[T]
                S == HoldersOf(placements, x)
            IN  /\ placements'[T] = x
                /\ \A k \in DOMAIN placements' \ {T} : placements'[k] # x
                /\ (Truthy(y) /\ y # x) =>
                        /\ \A s \in S : placements'[s] = y
                        /\ x \in Unplaced(placements) => y \in Unplaced(placements')
                /\ \A t \in TargetIdSet(node) \ (S \cup {T}) :
                        placements'[t] = placements[t]]_vars

\* C6 witness: a drop moved an item from target S onto target T, which held
\* another item, and that item now sits in S
C6_Witness ==
    /\ lastDrop.item # null
    /\ lastDrop.from \in TargetIdSet(node)
    /\ lastDrop.target \in TargetIdSet(node) \ {lastDrop.from}
    /\ lastDrop.before[lastDrop.target] \in Range(node.items) \ {lastDrop.item}
    /\ placements[lastDrop.from] = lastDrop.before[lastDrop.target]

\* C7: the value passed to onComplete is true exactly when every target holds
\* its correctItemId; and from such an all-correct placement, replacing any one
\* target's assignment by a different item gives a placement reported false.
C7_ReportsAllTargetsCorrect ==
    [][onCompleteLog' # onCompleteLog =>
            LET reported == onCompleteLog'[Len(onCompleteLog')]
                wrong == {i \in DOMAIN node.targets :
                            placements[node.targets[i].id]
                                # node.targets[i].correctItemId}
            IN  /\ reported = (wrong = {})
                /\ reported =>
                      \A t \in TargetIdSet(node) :
                        \A z \in (Range(node.items) \cup {null}) \ {placements[t]} :
                            ~isCorrect(node, [placements EXCEPT ![t] = z])]_vars

\* C7 witness: one attempt reported true and, after two items were exchanged,
\* reported false
C7_Witness ==
    /\ Len(onCompleteLog) = 2
    /\ onCompleteLog[1] = TRUE
    /\ onCompleteLog[2] = FALSE
    /\ isComplete(node, placements)

\* C8 (as claimed): onComplete is called at most once, whatever drops and
\* "check answer" clicks follow the first call.
C8_OnCompleteAtMostOnce ==
    Len(onCompleteLog) <= 1

\* C9: when item x occupies target A, dropping x onto another target B and
\* then dropping x back onto A restores the whole placements map.
C9_RoundTripRestores ==
    [][(/\ DropHandled
        /\ lastDrop.item # null
        /\ lastDrop'.item = lastDrop.item
        /\ lastDrop'.target \in TargetIdSet(node)
        /\ lastDrop.target \in TargetIdSet(node) \ {lastDrop'.target}
        /\ lastDrop.before[lastDrop'.target] = lastDrop.item)
            => placements' = lastDrop.before]_vars

\* C9 witness: the item came back from a target B where it had displaced
\* another item, and that item is in B again
C9_Witness ==
    /\ lastDrop.back
    /\ lastDrop.from \in TargetIdSet(node)
    /\ placements[lastDrop.from] \in Range(node.items)
    /\ placements[lastDrop.target] = lastDrop.item

\* the state right after construction: no drop handled, no drag, no call
Constructed ==
    lastDrop.item = null /\ draggedItem = null /\ onCompleteLog = <<>>

\* C10: at initialization the placements map has exactly the node's target ids
\* as keys, every value is null, and the shuffled sequence is a permutation of
\* the node's items.
C10_InitialPlacementsAndShuffle ==
    Constructed =>
        /\ DOMAIN placements = {node.targets[i].id : i \in DOMAIN node.targets}
        /\ \A k \in DOMAIN placements : placements[k] = null
        /\ Len(shuffledItems) = Len(node.items)
        /\ \A x \in Range(node.items) \cup Range(shuffledItems) :
              Cardinality({i \in DOMAIN shuffledItems : shuffledItems[i] = x})
                = Cardinality({i \in DOMAIN node.items : node.items[i] = x})

\* C10 witness: a freshly constructed quiz whose shuffle moved the items
C10_Witness ==
    /\ Constructed
    /\ shuffledItems # node.items
    /\ placements = [k \in TargetIdSet(node) |-> null]

\* C11 (as claimed): the shuffled presentation order differs from the node's
\* declared item order (the node has at least two items).
C11_ShuffleDiffersFromDeclared ==
    Len(node.items) >= 2 => shuffledItems # node.items

\* C13: a drop event received while draggedItem is null leaves placements and
\* draggedItem unchanged, on every drop zone and on the unplaced pool.
C13_DropWithoutDragIsNoOp ==
    [][(~Truthy(draggedItem) /\ lastEvent' \in DropEvents) =>
            placements' = placements /\ draggedItem' = draggedItem]_vars

\* C13 witness: a drop was delivered with no drag pending, on a quiz that holds
\* a placed item
C13_Witness ==
    /\ lastEvent \in {"dropIgnored", "dropRepeated"}
    /\ draggedItem = null
    /\ \E t \in TargetIdSet(node) : placements[t] \in Range(node.items)

\* C14: a dragStart leaves placements unchanged, and a dragEnd that ends a
\* pending drag leaves placements unchanged and sets draggedItem to null.
C14_AbandonedDragChangesNothing ==
    [][/\ lastEvent' = "dragStart" => placements' = placements
       /\ (Truthy(draggedItem) /\ lastEvent' = "dragEnd") =>
              placements' = placements /\ draggedItem' = null]_vars

\* C14 witness: a pending drag was ended, on a quiz that holds a placed item
C14_Witness ==
    /\ lastEvent = "dragEnd"
    /\ draggedItem = null
    /\ \E t \in TargetIdSet(node) : placements[t] \in Range(node.items)

\* C15: dropping an item onto the target it already occupies leaves the
\* placements map unchanged.
C15_DropOnOwnTargetIsNoOp ==
    [][(/\ DropHandled
        /\ lastDrop'.target \in TargetIdSet(node)
        /\ placements[lastDrop'.target] = draggedItem)
            => placements' = placements]_vars

\* C15 witness: the last handled drop put an item on the target it came from,
\* while another target holds an item too
C15_Witness ==
    /\ lastDrop.item # null
    /\ lastDrop.target \in TargetIdSet(node)
    /\ lastDrop.from = lastDrop.target
    /\ placements[lastDrop.target] = lastDrop.item
    /\ \E t \in TargetIdSet(node) \ {lastDrop.target} :
          placements[t] \in Range(node.items)

\* C16: after an attempt was resolved by "check answer", the attempt that
\* follows the re-entry of the node starts with exactly the target ids as
\* keys, all of them unassigned, and no drag pending.
C16_ReentryStartsUnassigned ==
    [][lastEvent' = "mount" =>
            /\ DOMAIN placements' = TargetIdSet(node)
            /\ \A t \in TargetIdSet(node) : placements'[t] = null
            /\ draggedItem' = null]_vars

\* C16 witness: the node was re-entered after a resolved attempt, none of
\* whose assignments is left
C16_Witness ==
    /\ lastEvent = "mount"
    /\ Len(onCompleteLog) >= 1
    /\ \A x \in Range(node.items) : x \in Unplaced(placements)

\* C17 (as claimed): every item of the node is either in the unplaced list and
\* in no target, or out of the unplaced list and in exactly one target.
C17_ItemInExactlyOnePlace ==
    \A x \in Range(node.items) :
        \/ x \in Unplaced(placements) /\ HoldersOf(placements, x) = {}
        \/ x \notin Unplaced(placements)
              /\ Cardinality(HoldersOf(placements, x)) = 1

\* the placements one drag and drop away from p
DropSuccessors(p) ==
    {newPlacements(node, p, x, t) :
        x \in DraggableItems(node, shuffledItems, p), t \in DropTargets(node)}

\* the placements reachable from those of seen by drags and drops, frontier
\* being the ones not yet expanded
RECURSIVE DropClosure(_, _)
DropClosure(frontier, seen) ==
    IF frontier = {} THEN seen
    ELSE LET new == (UNION {DropSuccessors(p) : p \in frontier}) \ seen
         IN  DropClosure(new, seen \cup new)

\* C18 (as claimed): from every reachable state some sequence of drags and
\* drops leads to placements where "check answer" is enabled and reports true.
C18_StaysSolvable ==
    \E q \in DropClosure({placements}, {placements}) :
        allPlaced(shuffledItems, q) /\ isCorrect(node, q)

\* C19: a handled drop leaves draggedItem null; a drop that directly follows a
\* drop changes neither placements nor draggedItem; and "check answer" changes
\* neither placements nor draggedItem.
C19_DropConsumesDrag ==
    [][/\ lastEvent' = "drop" => draggedItem' = null
       /\ (lastEvent \in DropEvents /\ lastEvent' \in DropEvents) =>
              placements' = placements /\ draggedItem' = draggedItem
       /\ lastEvent' = "check" =>
              placements' = placements /\ draggedItem' = draggedItem]_vars

\* C19 witness: a second drop was delivered right after a drop, on a quiz that
\* holds a placed item
C19_Witness ==
    /\ lastEvent = "dropRepeated"
    /\ draggedItem = null
    /\ \E t \in TargetIdSet(node) : placements[t] \in Range(node.items)

====
